---- MODULE Spec2Model ----
(***************************************************************************)
(* Chase-PacMan: the four grid search strategies (BFS, DFS, UCS, A* ) of   *)
(* algorithms/search_algorithms.py over the maze helpers of               *)
(* utils/game_utils.py, and the ghost scheduler of game.py                 *)
(* (PacmanGame.update_ghosts and the frame loop around it).                *)
(*                                                                         *)
(* Cells are pairs <<x, y>> with 0-based coordinates as in the source; the *)
(* maze is a sequence of rows, so MAZE_LAYOUT[y][x] of the source is       *)
(* MAZE_LAYOUT[y + 1][x + 1] here.  Python's None is the empty tuple.      *)
(***************************************************************************)
EXTENDS Integers, Sequences, FiniteSets, TLC

VARIABLES
    MAZE_LAYOUT,      \* utils.game_utils.MAZE_LAYOUT: the grid the searches read
    s_start,          \* start argument of the search call under test
    s_goal,           \* goal argument of the search call under test
    s_result,         \* strategy and return value of that call (None before it)
    game_state,       \* PacmanGame.game_state: MENU, LEVEL_SELECT or GAME
    current_level,    \* PacmanGame.current_level
    game_maze,        \* game.MAZE_LAYOUT: the copy reset_game binds, food eaten from it
    pacman_pos,       \* PacmanGame.pacman_pos
    ghost_positions,  \* PacmanGame.ghost_positions, by colour
    stats,            \* PacmanGame.stats
    current_path,     \* PacmanGame.current_path (levels 1 to 4)
    ghost_paths,      \* PacmanGame.ghost_paths, by colour (levels 5 and 6)
    ghost_algorithms, \* expanded_nodes of the instances in PacmanGame.ghost_algorithms
    ghost_move_timer, \* PacmanGame.ghost_move_timer
    pacman_move_timer,\* PacmanGame.pacman_move_timer
    level_complete,   \* PacmanGame.level_complete
    pc,               \* where PacmanGame.run stands in its loop body
    frame_dt,         \* dt of the frame in progress
    tick_log          \* what the last update_ghosts call did (its locals)

search_vars == <<MAZE_LAYOUT, s_start, s_goal, s_result>>

game_vars == <<game_state, current_level, game_maze, pacman_pos, ghost_positions, stats,
               current_path, ghost_paths, ghost_algorithms, ghost_move_timer,
               pacman_move_timer, level_complete, pc, frame_dt, tick_log>>

vars == <<MAZE_LAYOUT, s_start, s_goal, s_result, game_state, current_level, game_maze,
          pacman_pos, ghost_positions, stats, current_path, ghost_paths, ghost_algorithms,
          ghost_move_timer, pacman_move_timer, level_complete, pc, frame_dt, tick_log>>

None == <<>>

(***************************************************************************)
(* Bounds of the model.                                                    *)
(***************************************************************************)
GridW == 3
GridH == 2
MaxWalls == 2
MaxDt == 5
MaxExpanded == 7

(***************************************************************************)
(* utils/game_utils.py                                                     *)
(***************************************************************************)
is_valid_move(x, y) ==
    /\ 0 <= x /\ x < Len(MAZE_LAYOUT[1])
    /\ 0 <= y /\ y < Len(MAZE_LAYOUT)
    /\ MAZE_LAYOUT[y + 1][x + 1] # 1

\* mutant: the directions start at Right
directions_from_right == << <<1, 0>>, <<0, 1>>, <<-1, 0>>, <<0, -1>> >>

\* Up, Right, Down, Left
directions == << <<0, -1>>, <<1, 0>>, <<0, 1>>, <<-1, 0>> >>

\* mutant: the wall test is forgotten, the bounds test kept
get_neighbors_through_walls(x, y) ==
    LET cand == [i \in 1..4 |-> <<x + directions[i][1], y + directions[i][2]>>]
    IN  SelectSeq(cand, LAMBDA c : /\ 0 <= c[1] /\ c[1] < Len(MAZE_LAYOUT[1])
                                   /\ 0 <= c[2] /\ c[2] < Len(MAZE_LAYOUT))

get_neighbors(x, y) ==
    LET cand == [i \in 1..4 |-> <<x + directions[i][1], y + directions[i][2]>>]
    IN  SelectSeq(cand, LAMBDA c : is_valid_move(c[1], c[2]))

(***************************************************************************)
(* algorithms/search_algorithms.py                                         *)
(*                                                                         *)
(* A search in progress is a record: frontier (the queue, stack or heap),  *)
(* visited, parent, cost_so_far (UCS and A* only), expanded (the           *)
(* instance's expanded_nodes attribute, which __init__ sets to 0 and every *)
(* processed pop increments) and broke (the loop was left by its break).   *)
(***************************************************************************)
Reverse(seq) == [i \in 1..Len(seq) |-> seq[Len(seq) + 1 - i]]

SeqToSet(seq) == {seq[i] : i \in 1..Len(seq)}

abs(n) == IF n < 0 THEN -n ELSE n

\* while current: path.append(current); current = parent[current]
RECURSIVE walk_parents(_, _)
walk_parents(parent, current) ==
    IF current = None THEN <<>>
    ELSE <<current>> \o walk_parents(parent, parent[current])

\* The neighbours of one cell are distinct, so the for-loop over them is one
\* simultaneous update: fresh are the neighbours the loop body accepts, in order.
bfs_init(start, e0) ==
    [frontier |-> <<start>>, visited |-> {start}, parent |-> (start :> None),
     expanded |-> e0, broke |-> FALSE]

\* mutant: the queue is popped at the wrong end (pop() for popleft())
bfs_step_lifo(st, goal) ==
    LET n == Len(st.frontier)
        current == st.frontier[n]
        rest == SubSeq(st.frontier, 1, n - 1)
        fresh == SelectSeq(get_neighbors(current[1], current[2]),
                           LAMBDA c : c \notin st.visited)
    IN  IF current = goal
        THEN [st EXCEPT !.frontier = rest,
                        !.expanded = st.expanded + 1,
                        !.broke = TRUE]
        ELSE [st EXCEPT !.frontier = rest \o fresh,
                        !.visited = st.visited \cup SeqToSet(fresh),
                        !.parent = [c \in DOMAIN st.parent \cup SeqToSet(fresh) |->
                                      IF c \in SeqToSet(fresh) THEN current
                                      ELSE st.parent[c]],
                        !.expanded = st.expanded + 1]

\* mutant: a cell is marked visited when it is popped, not when it is enqueued
bfs_step_visit_at_pop(st, goal) ==
    LET current == Head(st.frontier)
        fresh == SelectSeq(get_neighbors(current[1], current[2]),
                           LAMBDA n : n \notin st.visited \cup {current})
    IN  IF current = goal
        THEN [st EXCEPT !.frontier = Tail(st.frontier),
                        !.expanded = st.expanded + 1,
                        !.broke = TRUE]
        ELSE [st EXCEPT !.frontier = Tail(st.frontier) \o fresh,
                        !.visited = st.visited \cup {current},
                        !.parent = [c \in DOMAIN st.parent \cup SeqToSet(fresh) |->
                                      IF c \in SeqToSet(fresh) THEN current
                                      ELSE st.parent[c]],
                        !.expanded = st.expanded + 1]

bfs_step(st, goal) ==
    LET current == Head(st.frontier)
        fresh == SelectSeq(get_neighbors(current[1], current[2]),
                           LAMBDA n : n \notin st.visited)
    IN  IF current = goal
        THEN [st EXCEPT !.frontier = Tail(st.frontier),
                        !.expanded = st.expanded + 1,
                        !.broke = TRUE]
        ELSE [st EXCEPT !.frontier = Tail(st.frontier) \o fresh,
                        !.visited = st.visited \cup SeqToSet(fresh),
                        !.parent = [c \in DOMAIN st.parent \cup SeqToSet(fresh) |->
                                      IF c \in SeqToSet(fresh) THEN current
                                      ELSE st.parent[c]],
                        !.expanded = st.expanded + 1]

\* mutant: the loop also stops at a budget of expansions, counted on the instance
RECURSIVE bfs_loop_budget(_, _)
bfs_loop_budget(st, goal) ==
    IF st.broke \/ st.frontier = <<>> \/ st.expanded >= 6 THEN st
    ELSE bfs_loop_budget(bfs_step(st, goal), goal)

RECURSIVE bfs_loop(_, _)
bfs_loop(st, goal) ==
    IF st.broke \/ st.frontier = <<>> THEN st ELSE bfs_loop(bfs_step(st, goal), goal)

bfs_path(st, start, goal) ==
    IF goal \in DOMAIN st.parent \/ goal = start
    THEN Reverse(walk_parents(st.parent, goal))
    ELSE <<>>

dfs_init(start, e0) ==
    [frontier |-> <<start>>, visited |-> {start}, parent |-> (start :> None),
     expanded |-> e0, broke |-> FALSE]

\* mutant: a cell is marked visited when it is popped, not when it is pushed
dfs_step_visit_at_pop(st, goal) ==
    LET n == Len(st.frontier)
        current == st.frontier[n]
        rest == SubSeq(st.frontier, 1, n - 1)
        fresh == SelectSeq(get_neighbors(current[1], current[2]),
                           LAMBDA c : c \notin st.visited \cup {current})
    IN  IF current = goal
        THEN [st EXCEPT !.frontier = rest,
                        !.expanded = st.expanded + 1,
                        !.broke = TRUE]
        ELSE [st EXCEPT !.frontier = rest \o fresh,
                        !.visited = st.visited \cup {current},
                        !.parent = [c \in DOMAIN st.parent \cup SeqToSet(fresh) |->
                                      IF c \in SeqToSet(fresh) THEN current
                                      ELSE st.parent[c]],
                        !.expanded = st.expanded + 1]

\* mutant: the stack is popped at the wrong end (pop(0) for pop())
dfs_step_pop_first(st, goal) ==
    LET current == Head(st.frontier)
        rest == Tail(st.frontier)
        fresh == SelectSeq(get_neighbors(current[1], current[2]),
                           LAMBDA c : c \notin st.visited)
    IN  IF current = goal
        THEN [st EXCEPT !.frontier = rest,
                        !.expanded = st.expanded + 1,
                        !.broke = TRUE]
        ELSE [st EXCEPT !.frontier = rest \o fresh,
                        !.visited = st.visited \cup SeqToSet(fresh),
                        !.parent = [c \in DOMAIN st.parent \cup SeqToSet(fresh) |->
                                      IF c \in SeqToSet(fresh) THEN current
                                      ELSE st.parent[c]],
                        !.expanded = st.expanded + 1]

\* DFS: the stack's top is the end of the sequence.
dfs_step(st, goal) ==
    LET n == Len(st.frontier)
        current == st.frontier[n]
        rest == SubSeq(st.frontier, 1, n - 1)
        fresh == SelectSeq(get_neighbors(current[1], current[2]),
                           LAMBDA c : c \notin st.visited)
    IN  IF current = goal
        THEN [st EXCEPT !.frontier = rest,
                        !.expanded = st.expanded + 1,
                        !.broke = TRUE]
        ELSE [st EXCEPT !.frontier = rest \o fresh,
                        !.visited = st.visited \cup SeqToSet(fresh),
                        !.parent = [c \in DOMAIN st.parent \cup SeqToSet(fresh) |->
                                      IF c \in SeqToSet(fresh) THEN current
                                      ELSE st.parent[c]],
                        !.expanded = st.expanded + 1]

RECURSIVE dfs_loop(_, _)
dfs_loop(st, goal) ==
    IF st.broke \/ st.frontier = <<>> THEN st ELSE dfs_loop(dfs_step(st, goal), goal)

\* found is set exactly where the loop breaks
\* mutant: the path is rebuilt without asking whether the goal was found
\* (parent.get(goal) is None for an undiscovered goal)
dfs_path_unchecked(st, start, goal) ==
    IF goal \in DOMAIN st.parent THEN Reverse(walk_parents(st.parent, goal)) ELSE <<goal>>

dfs_path(st, start, goal) ==
    IF st.broke THEN Reverse(walk_parents(st.parent, goal)) ELSE <<>>

\* Python's order on the heap entries (f, g, (x, y)): lexicographic.
pos_less(a, b) == a[1] < b[1] \/ (a[1] = b[1] /\ a[2] < b[2])

entry_less(a, b) ==
    \/ a[1] < b[1]
    \/ a[1] = b[1] /\ a[2] < b[2]
    \/ a[1] = b[1] /\ a[2] = b[2] /\ pos_less(a[3], b[3])

\* heapq.heappop: the least entry.  An entry is pushed only for a cell that is new
\* or strictly cheaper, so no two entries of the heap are equal and the heap is a set.
heappop(heap) == CHOOSE e \in heap : \A o \in heap \ {e} : entry_less(e, o)

ucs_init(start, e0) ==
    [frontier |-> {<<0, 0, start>>}, visited |-> {},
     parent |-> (start :> None), cost_so_far |-> (start :> 0),
     expanded |-> e0, broke |-> FALSE]

\* mutant: a neighbour is relaxed when the new cost is no worse, not strictly better
ucs_step_relax_equal(st, goal) ==
    LET e == heappop(st.frontier)
        current == e[3]
        rest == st.frontier \ {e}
        new_cost == st.cost_so_far[current] + 1
        better == {n \in SeqToSet(get_neighbors(current[1], current[2])) :
                      n \notin DOMAIN st.cost_so_far \/ new_cost <= st.cost_so_far[n]}
    IN  IF current = goal THEN [st EXCEPT !.frontier = rest, !.broke = TRUE]
        ELSE IF current \in st.visited THEN [st EXCEPT !.frontier = rest]
        ELSE [st EXCEPT
                !.frontier = rest \cup {<<new_cost, new_cost, n>> : n \in better},
                !.visited = st.visited \cup {current},
                !.expanded = st.expanded + 1,
                !.cost_so_far = [c \in DOMAIN st.cost_so_far \cup better |->
                                   IF c \in better THEN new_cost ELSE st.cost_so_far[c]],
                !.parent = [c \in DOMAIN st.parent \cup better |->
                              IF c \in better THEN current ELSE st.parent[c]]]

\* One iteration of the while-loop of UCSAlgorithm.search.
ucs_step(st, goal) ==
    LET e == heappop(st.frontier)
        current == e[3]
        rest == st.frontier \ {e}
        new_cost == st.cost_so_far[current] + 1
        better == {n \in SeqToSet(get_neighbors(current[1], current[2])) :
                      n \notin DOMAIN st.cost_so_far \/ new_cost < st.cost_so_far[n]}
    IN  IF current = goal THEN [st EXCEPT !.frontier = rest, !.broke = TRUE]
        ELSE IF current \in st.visited THEN [st EXCEPT !.frontier = rest]
        ELSE [st EXCEPT
                !.frontier = rest \cup {<<new_cost, new_cost, n>> : n \in better},
                !.visited = st.visited \cup {current},
                !.expanded = st.expanded + 1,
                !.cost_so_far = [c \in DOMAIN st.cost_so_far \cup better |->
                                   IF c \in better THEN new_cost ELSE st.cost_so_far[c]],
                !.parent = [c \in DOMAIN st.parent \cup better |->
                              IF c \in better THEN current ELSE st.parent[c]]]

RECURSIVE ucs_loop(_, _)
ucs_loop(st, goal) ==
    IF st.broke \/ st.frontier = {} THEN st ELSE ucs_loop(ucs_step(st, goal), goal)

ucs_path(st, goal) ==
    IF goal \in DOMAIN st.parent THEN Reverse(walk_parents(st.parent, goal)) ELSE <<>>

\* mutant: the differences are added without abs()
heuristic_signed(pos, goal) == (pos[1] - goal[1]) + (pos[2] - goal[2])

\* Manhattan distance
heuristic(pos, goal) == abs(pos[1] - goal[1]) + abs(pos[2] - goal[2])

astar_init(start, goal, e0) ==
    [frontier |-> {<<heuristic(start, goal), 0, start>>}, visited |-> {},
     parent |-> (start :> None), cost_so_far |-> (start :> 0),
     expanded |-> e0, broke |-> FALSE]

\* One iteration of the while-loop of AStarAlgorithm.search.
astar_step(st, goal) ==
    LET e == heappop(st.frontier)
        current == e[3]
        rest == st.frontier \ {e}
        new_cost == st.cost_so_far[current] + 1
        better == {n \in SeqToSet(get_neighbors(current[1], current[2])) :
                      n \notin DOMAIN st.cost_so_far \/ new_cost < st.cost_so_far[n]}
    IN  IF current = goal THEN [st EXCEPT !.frontier = rest, !.broke = TRUE]
        ELSE IF current \in st.visited THEN [st EXCEPT !.frontier = rest]
        ELSE [st EXCEPT
                !.frontier = rest \cup {<<new_cost + heuristic(n, goal), new_cost, n>> :
                                           n \in better},
                !.visited = st.visited \cup {current},
                !.expanded = st.expanded + 1,
                !.cost_so_far = [c \in DOMAIN st.cost_so_far \cup better |->
                                   IF c \in better THEN new_cost ELSE st.cost_so_far[c]],
                !.parent = [c \in DOMAIN st.parent \cup better |->
                              IF c \in better THEN current ELSE st.parent[c]]]

RECURSIVE astar_loop(_, _)
astar_loop(st, goal) ==
    IF st.broke \/ st.frontier = {} THEN st ELSE astar_loop(astar_step(st, goal), goal)

astar_path(st, goal) ==
    IF goal \in DOMAIN st.parent THEN Reverse(walk_parents(st.parent, goal)) ELSE <<>>

Algs == {"bfs", "dfs", "ucs", "astar"}

\* The state a search call on an instance whose counter stands at e0 ends in.
search_end(alg, e0, start, goal) ==
    CASE alg = "bfs" -> bfs_loop(bfs_init(start, e0), goal)
      [] alg = "dfs" -> dfs_loop(dfs_init(start, e0), goal)
      [] alg = "ucs" -> ucs_loop(ucs_init(start, e0), goal)
      [] alg = "astar" -> astar_loop(astar_init(start, goal, e0), goal)

search_path(alg, st, start, goal) ==
    CASE alg = "bfs" -> bfs_path(st, start, goal)
      [] alg = "dfs" -> dfs_path(st, start, goal)
      [] alg = "ucs" -> ucs_path(st, goal)
      [] alg = "astar" -> astar_path(st, goal)

\* search(start, goal) on an instance of strategy alg whose expanded_nodes is e0:
\* the returned path, the instance's counter afterwards (which get_stats reports)
\* and what is left of the frontier when the loop ends.
search_return(alg, st, start, goal) ==
    [path |-> search_path(alg, st, start, goal),
     expanded_nodes |-> st.expanded,
     frontier_left |-> IF alg \in {"bfs", "dfs"} THEN Len(st.frontier)
                       ELSE Cardinality(st.frontier)]

search(alg, e0, start, goal) ==
    search_return(alg, search_end(alg, e0, start, goal), start, goal)

\* time.time() differences and resident-set-size differences are whatever the
\* clock and the process report.
SearchTimes == {0}
MemoryDeltas == {0}

(***************************************************************************)
(* constants/game_constants.py is not among the sources: the names below   *)
(* stand for what game.py and game_utils.py import from it.                *)
(***************************************************************************)
\* cell tags: 0 empty, 1 wall, 2 food, 4 ghost spawn, 5 Pac-Man spawn
LayoutA ==
    << <<4, 4, 0, 4, 4>>,
       <<1, 1, 2, 1, 1>>,
       <<1, 1, 5, 1, 1>> >>

LayoutB ==
    << <<4, 0, 4, 1>>,
       <<1, 2, 1, 1>>,
       <<4, 5, 1, 4>> >>

\* blue alone can reach Pac-Man, who has room to step aside on the top row
LayoutC ==
    << <<4, 0, 5, 0, 1>>,
       <<1, 1, 1, 2, 1>>,
       <<4, 1, 4, 1, 4>> >>

\* blue and pink come at Pac-Man from the two ends of the top row
LayoutD ==
    << <<4, 0, 5, 0, 4>>,
       <<1, 1, 2, 1, 1>>,
       <<4, 1, 1, 1, 4>> >>

GameLayouts == {LayoutA, LayoutB, LayoutC, LayoutD}

GhostOrder == <<"blue", "pink", "orange", "red">>

GhostColors == {"blue", "pink", "orange", "red"}

ACTIVE_GHOSTS ==
    [l \in 1..6 |->
        CASE l = 1 -> <<"blue">>
          [] l = 2 -> <<"pink">>
          [] l = 3 -> <<"orange">>
          [] l = 4 -> <<"red">>
          [] OTHER -> GhostOrder]

\* len(LEVEL_DESCRIPTIONS)
NumLevels == 6

(***************************************************************************)
(* game.py: PacmanGame                                                     *)
(***************************************************************************)
\* seconds are counted in units of 0.05 s
ghost_move_delay == 4
pacman_move_delay == 3

\* the strategy of each entry of self.ghost_algorithms
alg_of == [g \in GhostColors |->
             CASE g = "blue" -> "bfs" [] g = "pink" -> "dfs"
               [] g = "orange" -> "ucs" [] g = "red" -> "astar"]

zero_stats == [expanded_nodes |-> 0, search_time |-> 0, memory_usage |-> 0]

no_paths == [g \in GhostColors |-> <<>>]

\* the cells of the grid in the order the nested loops of find_initial_positions
\* visit them: rank of <<x, y>> is y * width + x
cell_rank(c) == c[2] * Len(MAZE_LAYOUT[1]) + c[1]

tagged(t) == {c \in (0..(Len(MAZE_LAYOUT[1]) - 1)) \X (0..(Len(MAZE_LAYOUT) - 1)) :
                 MAZE_LAYOUT[c[2] + 1][c[1] + 1] = t}

\* find_initial_positions()[0]: the last cell tagged 5, None without one
initial_pacman ==
    IF tagged(5) = {} THEN None
    ELSE CHOOSE c \in tagged(5) : \A o \in tagged(5) : cell_rank(o) <= cell_rank(c)

\* find_initial_positions()[1]: the k-th cell tagged 4 goes to the k-th colour
initial_ghosts ==
    [g \in GhostColors |->
        LET k == CHOOSE i \in 1..4 : GhostOrder[i] = g
            at == {c \in tagged(4) :
                     Cardinality({o \in tagged(4) : cell_rank(o) < cell_rank(c)}) = k - 1}
        IN  IF at = {} THEN None ELSE CHOOSE c \in at : TRUE]

no_log ==
    [level |-> 0, eligible |-> FALSE, before |-> [g \in GhostColors |-> None],
     pacman |-> None, cached |-> no_paths, planned |-> no_paths,
     proposed |-> [g \in GhostColors |-> None], replanned |-> {},
     held |-> {}, moved |-> {}, captured |-> {}]

\* What reset_game leaves in the fields it assigns.  original_maze_layout is the copy
\* __init__ took of MAZE_LAYOUT, which nothing writes to afterwards.
reset_game ==
    [game_maze |-> MAZE_LAYOUT,
     pacman_pos |-> initial_pacman,
     ghost_positions |-> initial_ghosts,
     stats |-> zero_stats,
     current_path |-> <<>>,
     ghost_paths |-> no_paths,
     level_complete |-> FALSE]

apply_reset ==
    /\ game_maze' = reset_game.game_maze
    /\ pacman_pos' = reset_game.pacman_pos
    /\ ghost_positions' = reset_game.ghost_positions
    /\ stats' = reset_game.stats
    /\ current_path' = reset_game.current_path
    /\ ghost_paths' = reset_game.ghost_paths
    /\ level_complete' = reset_game.level_complete

\* PacmanGame.__init__
GameInit ==
    /\ game_state = "MENU"
    /\ current_level = 1
    /\ game_maze = reset_game.game_maze
    /\ pacman_pos = reset_game.pacman_pos
    /\ ghost_positions = reset_game.ghost_positions
    /\ stats = zero_stats
    /\ current_path = <<>>
    /\ ghost_paths = no_paths
    /\ ghost_algorithms = [g \in GhostColors |-> 0]
    /\ ghost_move_timer = 0
    /\ pacman_move_timer = 0
    /\ level_complete = FALSE
    /\ pc = "events"
    /\ frame_dt = 0
    /\ tick_log = no_log

Init ==
    /\ MAZE_LAYOUT \in GameLayouts
    /\ s_start = None
    /\ s_goal = None
    /\ s_result = None
    /\ GameInit

(***************************************************************************)
(* handle_events: one KEYDOWN event.  The keys that only toggle what is    *)
(* drawn (p, s, d) and quitting are left out.                              *)
(***************************************************************************)
frame_rest == <<MAZE_LAYOUT, s_start, s_goal, s_result, ghost_algorithms, ghost_move_timer,
                pacman_move_timer, pc, frame_dt, tick_log>>

KeySpace ==
    /\ pc = "events"
    /\ game_state = "MENU"
    /\ game_state' = "LEVEL_SELECT"
    /\ UNCHANGED <<current_level, game_maze, pacman_pos, ghost_positions, stats,
                   current_path, ghost_paths, level_complete>>
    /\ UNCHANGED frame_rest

KeyEscape ==
    /\ pc = "events"
    /\ game_state \in {"LEVEL_SELECT", "GAME"}
    /\ game_state' = IF game_state = "LEVEL_SELECT" THEN "MENU" ELSE "LEVEL_SELECT"
    /\ UNCHANGED <<current_level, game_maze, pacman_pos, ghost_positions, stats,
                   current_path, ghost_paths, level_complete>>
    /\ UNCHANGED frame_rest

KeyUp ==
    /\ pc = "events"
    /\ game_state = "LEVEL_SELECT"
    /\ current_level > 1
    /\ current_level' = current_level - 1
    /\ UNCHANGED <<game_state, game_maze, pacman_pos, ghost_positions, stats,
                   current_path, ghost_paths, level_complete>>
    /\ UNCHANGED frame_rest

KeyDown ==
    /\ pc = "events"
    /\ game_state = "LEVEL_SELECT"
    /\ current_level < NumLevels
    /\ current_level' = current_level + 1
    /\ UNCHANGED <<game_state, game_maze, pacman_pos, ghost_positions, stats,
                   current_path, ghost_paths, level_complete>>
    /\ UNCHANGED frame_rest

min(a, b) == IF a < b THEN a ELSE b

\* K_RETURN: starts the selected level, or goes on to the next one once the level
\* is complete
KeyReturn ==
    /\ pc = "events"
    /\ \/ /\ game_state = "LEVEL_SELECT"
          /\ game_state' = "GAME"
          /\ UNCHANGED current_level
       \/ /\ game_state = "GAME"
          /\ level_complete
          /\ current_level' = min(NumLevels, current_level + 1)
          /\ UNCHANGED game_state
    /\ apply_reset
    /\ UNCHANGED frame_rest

(***************************************************************************)
(* update_pacman(dt): the first step of a frame of the GAME state.  key is *)
(* the first pressed key in the order RIGHT, DOWN, LEFT, UP, or none.      *)
(***************************************************************************)
Keys == {"none", "right", "down", "left", "up"}

key_step(k) ==
    CASE k = "right" -> <<1, 0>>
      [] k = "down" -> <<0, 1>>
      [] k = "left" -> <<-1, 0>>
      [] k = "up" -> <<0, -1>>
      [] OTHER -> <<0, 0>>

has_food_left(maze) == \E r \in 1..Len(maze) : \E c \in 1..Len(maze[r]) : maze[r][c] = 2

\* frame lengths: one as long as Pac-Man's delay (below the ghosts' delay) and a
\* long one (above both)
DtValues == {pacman_move_delay, MaxDt}

pacman_frame ==
    /\ pc = "events"
    /\ game_state = "GAME"
    /\ ~level_complete
    /\ pc' = "ghosts"
    /\ \E dt \in DtValues, key \in Keys :
         /\ frame_dt' = dt
         /\ IF current_level = 6
            THEN IF pacman_move_timer + dt >= pacman_move_delay
                 THEN LET new_pos == <<pacman_pos[1] + key_step(key)[1],
                                       pacman_pos[2] + key_step(key)[2]>>
                          eaten == [game_maze EXCEPT ![new_pos[2] + 1][new_pos[1] + 1] = 0]
                      IN  /\ pacman_move_timer' = 0
                          /\ IF is_valid_move(new_pos[1], new_pos[2])
                             THEN /\ pacman_pos' = new_pos
                                  /\ IF game_maze[new_pos[2] + 1][new_pos[1] + 1] = 2
                                     THEN /\ game_maze' = eaten
                                          /\ level_complete' = ~has_food_left(eaten)
                                     ELSE UNCHANGED <<game_maze, level_complete>>
                             ELSE UNCHANGED <<pacman_pos, game_maze, level_complete>>
                 ELSE /\ pacman_move_timer' = pacman_move_timer + dt
                      /\ UNCHANGED <<pacman_pos, game_maze, level_complete>>
            ELSE UNCHANGED <<pacman_move_timer, pacman_pos, game_maze, level_complete>>
    /\ UNCHANGED <<MAZE_LAYOUT, s_start, s_goal, s_result, game_state, current_level,
                   ghost_positions, stats, current_path, ghost_paths, ghost_algorithms,
                   ghost_move_timer, tick_log>>

\* frames run while every instance's counter is below MaxExpanded
UpdatePacman ==
    /\ \A g \in GhostColors : ghost_algorithms[g] < MaxExpanded
    /\ pacman_frame

(***************************************************************************)
(* update_ghosts(dt) on an eligible tick.  Each branch yields the fields   *)
(* it leaves behind, whether it called reset_game, and a log of its        *)
(* locals: the cell each ghost proposed, who replanned, who was held.      *)
(***************************************************************************)
stats_of(r, tm) ==
    [expanded_nodes |-> r.expanded_nodes, search_time |-> tm[1], memory_usage |-> tm[2]]

\* levels 1 to 4: one ghost, a new instance per replan, self.current_path.
\* First the path the ghost goes by and the stats shown ...
new_plan(r, tm) == [path |-> r.path, stats |-> stats_of(r, tm), replanned |-> TRUE]

\* mutant: the path is searched again on every tick (the length test forgotten)
single_ghost_plan_always(g, tm) ==
    new_plan(search(alg_of[g], 0, ghost_positions[g], pacman_pos), tm)

single_ghost_plan(g, tm) ==
    IF Len(current_path) <= 1
    THEN new_plan(search(alg_of[g], 0, ghost_positions[g], pacman_pos), tm)
    ELSE [path |-> current_path, stats |-> stats, replanned |-> FALSE]

\* mutant: the ghost is put on the last cell of the path instead of the next one
single_ghost_move_to_end(g, plan) ==
    LET go == Len(plan.path) > 1
    IN  [ghost_positions |-> IF go THEN [ghost_positions EXCEPT ![g] = plan.path[Len(plan.path)]]
                             ELSE ghost_positions,
         current_path |-> IF go THEN Tail(plan.path) ELSE plan.path,
         ghost_paths |-> ghost_paths,
         ghost_algorithms |-> ghost_algorithms,
         stats |-> plan.stats,
         reset |-> FALSE,
         log |-> [level |-> current_level, eligible |-> TRUE, before |-> ghost_positions,
                  pacman |-> pacman_pos,
                  cached |-> [no_paths EXCEPT ![g] = current_path],
                  planned |-> [no_paths EXCEPT ![g] = plan.path],
                  proposed |-> [c \in GhostColors |->
                                  IF c = g /\ go THEN plan.path[2] ELSE None],
                  replanned |-> IF plan.replanned THEN {g} ELSE {},
                  held |-> {}, moved |-> IF go THEN {g} ELSE {}, captured |-> {}]]

\* ... then the move along it
single_ghost_move(g, plan) ==
    LET go == Len(plan.path) > 1
    IN  [ghost_positions |-> IF go THEN [ghost_positions EXCEPT ![g] = plan.path[2]]
                             ELSE ghost_positions,
         current_path |-> IF go THEN Tail(plan.path) ELSE plan.path,
         ghost_paths |-> ghost_paths,
         ghost_algorithms |-> ghost_algorithms,
         stats |-> plan.stats,
         reset |-> FALSE,
         log |-> [level |-> current_level, eligible |-> TRUE, before |-> ghost_positions,
                  pacman |-> pacman_pos,
                  cached |-> [no_paths EXCEPT ![g] = current_path],
                  planned |-> [no_paths EXCEPT ![g] = plan.path],
                  proposed |-> [c \in GhostColors |->
                                  IF c = g /\ go THEN plan.path[2] ELSE None],
                  replanned |-> IF plan.replanned THEN {g} ELSE {},
                  held |-> {}, moved |-> IF go THEN {g} ELSE {}, captured |-> {}]]

single_ghost_tick(g, tm) == single_ghost_move(g, single_ghost_plan(g, tm))

\* the locals of the level 5 and level 6 branches before their loop
tick_start ==
    [paths |-> ghost_paths, planned |-> ghost_paths,
     expanded |-> ghost_algorithms, stats |-> stats,
     new_positions |-> <<>>, occupied |-> {}, proposed |-> [g \in GhostColors |-> None],
     replanned |-> {}, held |-> {}, captured |-> {}, reset |-> FALSE]

\* if not self.ghost_paths[g] or len(self.ghost_paths[g]) <= 1: search again
store_plan(acc, g, r, tm) ==
    [acc EXCEPT !.paths[g] = r.path,
                !.planned[g] = r.path,
                !.expanded[g] = r.expanded_nodes,
                !.stats = IF g = "blue" THEN stats_of(r, tm) ELSE @,
                !.replanned = @ \cup {g}]

\* mutant: only an empty path is replanned (the len(...) <= 1 test forgotten)
replan_if_empty(acc, g, tm) ==
    IF Len(acc.paths[g]) < 1
    THEN store_plan(acc, g,
                    search(alg_of[g], acc.expanded[g], ghost_positions[g], pacman_pos), tm)
    ELSE acc

\* mutant: the goal is the cell Pac-Man started from, not the one he is on
replan_to_spawn(acc, g, tm) ==
    IF Len(acc.paths[g]) <= 1
    THEN store_plan(acc, g,
                    search(alg_of[g], acc.expanded[g], ghost_positions[g], initial_pacman), tm)
    ELSE acc

replan_if_needed(acc, g, tm) ==
    IF Len(acc.paths[g]) <= 1
    THEN store_plan(acc, g,
                    search(alg_of[g], acc.expanded[g], ghost_positions[g], pacman_pos), tm)
    ELSE acc

\* level 5, first loop: one iteration per active ghost
level5_note(a, g) ==
    IF Len(a.paths[g]) > 1
    THEN [a EXCEPT !.new_positions = Append(@, <<g, a.paths[g][2]>>),
                   !.proposed[g] = a.paths[g][2]]
    ELSE a

level5_propose(acc, g, tm) == level5_note(replan_if_needed(acc, g, tm), g)

RECURSIVE level5_loop(_, _, _)
level5_loop(acc, i, tm) ==
    IF i > Len(ACTIVE_GHOSTS[5]) THEN acc
    ELSE level5_loop(level5_propose(acc, ACTIVE_GHOSTS[5][i], tm), i + 1, tm)

\* mutant: on a conflict the cells of the later ghosts are looked at, so the last
\* claimant of a cell moves
level5_movers_last_wins(np) ==
    LET positions == [i \in 1..Len(np) |-> np[i][2]]
    IN  IF Len(positions) = Cardinality(SeqToSet(positions))
        THEN {np[i][1] : i \in 1..Len(np)}
        ELSE {np[i][1] : i \in {j \in 1..Len(np) :
                                   positions[j] \notin {positions[k] : k \in (j + 1)..Len(np)}}}

\* mutant: the duplicate check is forgotten and every proposal is committed
level5_movers_all(np) == {np[i][1] : i \in 1..Len(np)}

\* level 5, the collision check: who is moved, given new_positions in insertion order
level5_movers(np) ==
    LET positions == [i \in 1..Len(np) |-> np[i][2]]
    IN  IF Len(positions) = Cardinality(SeqToSet(positions))
        THEN {np[i][1] : i \in 1..Len(np)}
        ELSE {np[i][1] : i \in {j \in 1..Len(np) :
                                   positions[j] \notin {positions[k] : k \in 1..(j - 1)}}}

\* mutant: the moved ghosts' paths keep their head (pop(0) forgotten)
level5_commit_no_pop(acc) ==
    LET movers == level5_movers(acc.new_positions)
    IN  [ghost_positions |-> [g \in GhostColors |->
                                IF g \in movers THEN acc.paths[g][2] ELSE ghost_positions[g]],
         current_path |-> current_path,
         ghost_paths |-> acc.paths,
         ghost_algorithms |-> acc.expanded,
         stats |-> acc.stats,
         reset |-> FALSE,
         log |-> [level |-> 5, eligible |-> TRUE, before |-> ghost_positions,
                  pacman |-> pacman_pos, cached |-> ghost_paths,
                  planned |-> acc.planned, proposed |-> acc.proposed,
                  replanned |-> acc.replanned,
                  held |-> {g \in GhostColors : acc.proposed[g] # None} \ movers,
                  moved |-> movers, captured |-> {}]]

level5_commit(acc) ==
    LET movers == level5_movers(acc.new_positions)
    IN  [ghost_positions |-> [g \in GhostColors |->
                                IF g \in movers THEN acc.paths[g][2] ELSE ghost_positions[g]],
         current_path |-> current_path,
         ghost_paths |-> [g \in GhostColors |->
                            IF g \in movers THEN Tail(acc.paths[g]) ELSE acc.paths[g]],
         ghost_algorithms |-> acc.expanded,
         stats |-> acc.stats,
         reset |-> FALSE,
         log |-> [level |-> 5, eligible |-> TRUE, before |-> ghost_positions,
                  pacman |-> pacman_pos, cached |-> ghost_paths,
                  planned |-> acc.planned, proposed |-> acc.proposed,
                  replanned |-> acc.replanned,
                  held |-> {g \in GhostColors : acc.proposed[g] # None} \ movers,
                  moved |-> movers, captured |-> {}]]

level5_tick(tm) == level5_commit(level5_loop(tick_start, 1, tm))

\* level 6, first loop: one iteration per active ghost; reset marks the return
\* after reset_game()
\* mutant: a next cell that is Pac-Man's cell is committed like any other
level6_note_no_capture(a, g) ==
    IF Len(a.paths[g]) > 1
    THEN LET new_pos == a.paths[g][2]
         IN  IF new_pos \notin a.occupied
             THEN [a EXCEPT !.proposed[g] = new_pos,
                            !.new_positions = Append(@, <<g, new_pos>>),
                            !.occupied = @ \cup {new_pos}]
             ELSE [a EXCEPT !.proposed[g] = new_pos, !.paths[g] = <<>>,
                            !.held = @ \cup {g}]
    ELSE a

level6_note(a, g) ==
    IF Len(a.paths[g]) > 1
    THEN LET new_pos == a.paths[g][2]
         IN  IF new_pos \notin a.occupied
             THEN IF new_pos = pacman_pos
                  THEN [a EXCEPT !.proposed[g] = new_pos, !.captured = {g}, !.reset = TRUE]
                  ELSE [a EXCEPT !.proposed[g] = new_pos,
                                 !.new_positions = Append(@, <<g, new_pos>>),
                                 !.occupied = @ \cup {new_pos}]
             ELSE [a EXCEPT !.proposed[g] = new_pos, !.paths[g] = <<>>,
                            !.held = @ \cup {g}]
    ELSE a

level6_propose(acc, g, tm) == level6_note(replan_if_needed(acc, g, tm), g)

RECURSIVE level6_loop(_, _, _)
level6_loop(acc, i, tm) ==
    IF i > Len(ACTIVE_GHOSTS[6]) \/ acc.reset THEN acc
    ELSE level6_loop(level6_propose(acc, ACTIVE_GHOSTS[6][i], tm), i + 1, tm)

\* mutant: the commit loop stops after the first ghost
level6_commit_first_only(acc) ==
    LET all == {acc.new_positions[i][1] : i \in 1..Len(acc.new_positions)}
        movers == IF acc.new_positions = <<>> THEN {} ELSE {acc.new_positions[1][1]}
    IN  [ghost_positions |-> [g \in GhostColors |->
                                IF g \in movers THEN acc.paths[g][2] ELSE ghost_positions[g]],
         current_path |-> current_path,
         ghost_paths |-> [g \in GhostColors |->
                            IF g \in movers THEN Tail(acc.paths[g]) ELSE acc.paths[g]],
         ghost_algorithms |-> acc.expanded,
         stats |-> acc.stats,
         reset |-> acc.reset,
         log |-> [level |-> 6, eligible |-> TRUE, before |-> ghost_positions,
                  pacman |-> pacman_pos, cached |-> ghost_paths,
                  planned |-> acc.planned, proposed |-> acc.proposed,
                  replanned |-> acc.replanned, held |-> acc.held \cup (all \ movers),
                  moved |-> IF acc.reset THEN {} ELSE movers, captured |-> acc.captured]]

level6_commit(acc) ==
    LET movers == {acc.new_positions[i][1] : i \in 1..Len(acc.new_positions)}
    IN  [ghost_positions |-> [g \in GhostColors |->
                                IF g \in movers THEN acc.paths[g][2] ELSE ghost_positions[g]],
         current_path |-> current_path,
         ghost_paths |-> [g \in GhostColors |->
                            IF g \in movers THEN Tail(acc.paths[g]) ELSE acc.paths[g]],
         ghost_algorithms |-> acc.expanded,
         stats |-> acc.stats,
         reset |-> acc.reset,
         log |-> [level |-> 6, eligible |-> TRUE, before |-> ghost_positions,
                  pacman |-> pacman_pos, cached |-> ghost_paths,
                  planned |-> acc.planned, proposed |-> acc.proposed,
                  replanned |-> acc.replanned, held |-> acc.held,
                  moved |-> IF acc.reset THEN {} ELSE movers, captured |-> acc.captured]]

level6_tick(tm) == level6_commit(level6_loop(tick_start, 1, tm))

ghosts_tick(tm) ==
    CASE current_level \in 1..4 -> single_ghost_tick(ACTIVE_GHOSTS[current_level][1], tm)
      [] current_level = 5 -> level5_tick(tm)
      [] current_level = 6 -> level6_tick(tm)

\* mutant: the threshold is off by one
timer_elapsed_early(timer, delay) == timer + 1 >= delay

timer_elapsed(timer, delay) == timer >= delay

\* mutant: the results of the tick are kept although reset_game() was called
\* (the return after it forgotten, the commit loop run on the tick's locals)
apply_tick_after_reset(out) ==
    /\ tick_log' = out.log
    /\ ghost_algorithms' = out.ghost_algorithms
    /\ ghost_positions' = out.ghost_positions
    /\ current_path' = out.current_path
    /\ ghost_paths' = out.ghost_paths
    /\ stats' = out.stats
    /\ UNCHANGED <<game_maze, pacman_pos, level_complete>>

\* the assignments of an eligible tick
apply_tick(out) ==
    /\ tick_log' = out.log
    /\ ghost_algorithms' = out.ghost_algorithms
    /\ IF out.reset
       THEN apply_reset
       ELSE /\ ghost_positions' = out.ghost_positions
            /\ current_path' = out.current_path
            /\ ghost_paths' = out.ghost_paths
            /\ stats' = out.stats
            /\ UNCHANGED <<game_maze, pacman_pos, level_complete>>

UpdateGhosts ==
    /\ pc = "ghosts"
    /\ pc' = "collisions"
    /\ IF timer_elapsed(ghost_move_timer + frame_dt, ghost_move_delay)
       THEN /\ ghost_move_timer' = 0
            /\ \E tm \in SearchTimes \X MemoryDeltas : apply_tick(ghosts_tick(tm))
       ELSE /\ ghost_move_timer' = ghost_move_timer + frame_dt
            /\ tick_log' = no_log
            /\ UNCHANGED <<game_maze, pacman_pos, ghost_positions, stats, current_path,
                           ghost_paths, ghost_algorithms, level_complete>>
    /\ UNCHANGED <<MAZE_LAYOUT, s_start, s_goal, s_result, game_state, current_level,
                   pacman_move_timer, frame_dt>>

\* check_collisions(): the last step of the frame
ghost_on_pacman ==
    \E i \in 1..Len(ACTIVE_GHOSTS[current_level]) :
        LET g == ACTIVE_GHOSTS[current_level][i]
        IN  ghost_positions[g] # None /\ ghost_positions[g] = pacman_pos

CheckCollisions ==
    /\ pc = "collisions"
    /\ pc' = "events"
    /\ IF ghost_on_pacman
       THEN apply_reset
       ELSE UNCHANGED <<game_maze, pacman_pos, ghost_positions, stats, current_path,
                        ghost_paths, level_complete>>
    /\ UNCHANGED <<MAZE_LAYOUT, s_start, s_goal, s_result, game_state, current_level,
                   ghost_algorithms, ghost_move_timer, pacman_move_timer, frame_dt, tick_log>>

Next ==
    \/ KeySpace
    \/ KeyEscape
    \/ KeyUp
    \/ KeyDown
    \/ KeyReturn
    \/ UpdatePacman
    \/ UpdateGhosts
    \/ CheckCollisions

Spec == Init /\ [][Next]_vars

(***************************************************************************)
(* The frame loop running for ever: `while running` in run() takes one     *)
(* frame after the other, so each step of a frame that can be taken is     *)
(* taken.  The counters of the reused instances grow without bound; here   *)
(* a count of MaxExpanded or more is kept as MaxExpanded, which leaves the *)
(* paths and the moves as they are (no search reads the counter).          *)
(***************************************************************************)
bounded_count(n) == min(n, MaxExpanded)

bounded_tick(out) ==
    [out EXCEPT !.ghost_algorithms =
                    [g \in GhostColors |-> bounded_count(out.ghost_algorithms[g])]]

LoopPacman ==
    /\ game_state = "GAME"
    /\ pacman_frame

LoopGhosts ==
    /\ pc = "ghosts"
    /\ pc' = "collisions"
    /\ IF timer_elapsed(ghost_move_timer + frame_dt, ghost_move_delay)
       THEN /\ ghost_move_timer' = 0
            /\ \E tm \in SearchTimes \X MemoryDeltas :
                  apply_tick(bounded_tick(ghosts_tick(tm)))
       ELSE /\ ghost_move_timer' = ghost_move_timer + frame_dt
            /\ tick_log' = no_log
            /\ UNCHANGED <<game_maze, pacman_pos, ghost_positions, stats, current_path,
                           ghost_paths, ghost_algorithms, level_complete>>
    /\ UNCHANGED <<MAZE_LAYOUT, s_start, s_goal, s_result, game_state, current_level,
                   pacman_move_timer, frame_dt>>

LoopNext ==
    \/ KeySpace
    \/ KeyEscape
    \/ KeyUp
    \/ KeyDown
    \/ KeyReturn
    \/ LoopPacman
    \/ LoopGhosts
    \/ CheckCollisions

\* the game is constructed on one of the two mazes that leave Pac-Man no side step
LoopLayouts == {LayoutA, LayoutB}

LoopInit ==
    /\ MAZE_LAYOUT \in LoopLayouts
    /\ s_start = None
    /\ s_goal = None
    /\ s_result = None
    /\ GameInit

\* update_ghosts can always be taken when it is its turn, so weak fairness of
\* LoopGhosts says that it is not its turn for ever: []<>(pc # "ghosts")
LoopSpec ==
    /\ LoopInit
    /\ [][LoopNext]_vars
    /\ WF_vars(LoopPacman)
    /\ []<>(pc # "ghosts")
    /\ WF_vars(CheckCollisions)

(***************************************************************************)
(* The searches on their own: a maze, a start and a goal are drawn, and    *)
(* search(start, goal) is called on a fresh instance of one strategy.      *)
(***************************************************************************)
Cells == {<<x, y>> : x \in 0..(GridW - 1), y \in 0..(GridH - 1)}

WallSets == {ws \in SUBSET Cells : Cardinality(ws) <= MaxWalls}

LayoutOf(ws) == [r \in 1..GridH |-> [c \in 1..GridW |-> IF <<c - 1, r - 1>> \in ws THEN 1 ELSE 0]]

SearchLayouts == {LayoutOf(ws) : ws \in WallSets}

FreeCells == {c \in Cells : is_valid_move(c[1], c[2])}

SearchInit ==
    /\ MAZE_LAYOUT \in SearchLayouts
    /\ s_start \in FreeCells
    /\ s_goal \in FreeCells
    /\ s_result = None
    /\ GameInit

\* what a call returns: the path and get_stats()
call_record(alg, r, tm) ==
    [alg |-> alg, path |-> r.path, stats |-> stats_of(r, tm),
     frontier_left |-> r.frontier_left]

\* mutant: the search marks its start cell in the grid as seen
CallSearch_marks_start(alg) ==
    /\ s_result = None
    /\ \E tm \in SearchTimes \X MemoryDeltas :
         s_result' = call_record(alg, search(alg, 0, s_start, s_goal), tm)
    /\ MAZE_LAYOUT' = [MAZE_LAYOUT EXCEPT ![s_start[2] + 1][s_start[1] + 1] = 3]
    /\ UNCHANGED <<s_start, s_goal>>
    /\ UNCHANGED game_vars

\* alg's search(s_start, s_goal) on an instance fresh from __init__
CallSearch(alg) ==
    /\ s_result = None
    /\ \E tm \in SearchTimes \X MemoryDeltas :
         s_result' = call_record(alg, search(alg, 0, s_start, s_goal), tm)
    /\ UNCHANGED <<MAZE_LAYOUT, s_start, s_goal>>
    /\ UNCHANGED game_vars

BFSSearch == CallSearch("bfs")
DFSSearch == CallSearch("dfs")
UCSSearch == CallSearch("ucs")
AStarSearch == CallSearch("astar")

SearchNext == BFSSearch \/ DFSSearch \/ UCSSearch \/ AStarSearch

SearchSpec == SearchInit /\ [][SearchNext]_vars

(***************************************************************************)
(* Properties of the searches (checked under SearchSpec).                  *)
(***************************************************************************)
\* the grid as the claims speak of it, read from the tags alone
InBounds(c) ==
    /\ 0 <= c[1] /\ c[1] < Len(MAZE_LAYOUT[1])
    /\ 0 <= c[2] /\ c[2] < Len(MAZE_LAYOUT)

IsWall(c) == MAZE_LAYOUT[c[2] + 1][c[1] + 1] = 1

Adjacent4(a, b) == abs(a[1] - b[1]) + abs(a[2] - b[2]) = 1

OpenCells == {c \in (0..(Len(MAZE_LAYOUT[1]) - 1)) \X (0..(Len(MAZE_LAYOUT) - 1)) : ~IsWall(c)}

Around(layer) == {c \in OpenCells : \E d \in layer : Adjacent4(c, d)}

\* the true shortest-path distance, layer by layer; -1 when there is no path
RECURSIVE LayerDistance(_, _, _, _)
LayerDistance(seen, layer, goal, k) ==
    IF goal \in layer THEN k
    ELSE IF layer = {} THEN -1
    ELSE LayerDistance(seen \cup Around(layer), Around(layer) \ seen, goal, k + 1)

ShortestDistance(start, goal) == LayerDistance({start}, {start}, goal, 0)

Called == s_result # None

\* C1: a non-empty path returned by any of the four strategies starts at start,
\* ends at goal, steps between 4-adjacent cells, stays in bounds and off the walls,
\* and visits no cell twice.
C1_PathWellFormed ==
    (Called /\ s_result.path # <<>>) =>
        /\ s_result.path[1] = s_start
        /\ s_result.path[Len(s_result.path)] = s_goal
        /\ \A i \in 1..(Len(s_result.path) - 1) :
              Adjacent4(s_result.path[i], s_result.path[i + 1])
        /\ \A i \in 1..Len(s_result.path) :
              InBounds(s_result.path[i]) /\ ~IsWall(s_result.path[i])
        /\ \A i, j \in 1..Len(s_result.path) :
              i # j => s_result.path[i] # s_result.path[j]

\* a path of at least four cells in a maze with walls
C1_Witness ==
    /\ Called
    /\ Len(s_result.path) >= 4
    /\ \E c \in (0..(Len(MAZE_LAYOUT[1]) - 1)) \X (0..(Len(MAZE_LAYOUT) - 1)) : IsWall(c)

\* C2: with the goal reachable, BFS, UCS and A* return a path with as many edges as
\* the shortest-path distance, and DFS a non-empty path with at least as many.
C2_PathLengths ==
    (Called /\ ShortestDistance(s_start, s_goal) >= 0) =>
        /\ s_result.path # <<>>
        /\ s_result.alg \in {"bfs", "ucs", "astar"} =>
              Len(s_result.path) - 1 = ShortestDistance(s_start, s_goal)
        /\ s_result.alg = "dfs" =>
              Len(s_result.path) - 1 >= ShortestDistance(s_start, s_goal)

\* a shortest path that has to go around a wall, found by one of the optimal strategies
C2_Witness ==
    /\ Called
    /\ s_result.alg \in {"bfs", "ucs", "astar"}
    /\ ShortestDistance(s_start, s_goal) > heuristic(s_start, s_goal)
    /\ Len(s_result.path) - 1 = ShortestDistance(s_start, s_goal)

\* DFS returning a path longer than the shortest one
C2_DfsLonger ==
    /\ Called
    /\ s_result.alg = "dfs"
    /\ Len(s_result.path) - 1 > ShortestDistance(s_start, s_goal)
    /\ ShortestDistance(s_start, s_goal) >= 0

\* C3: with the goal unreachable, every strategy returns the empty path and a stats
\* record, and its frontier is exhausted.
C3_UnreachableGoal ==
    (Called /\ ShortestDistance(s_start, s_goal) < 0) =>
        /\ s_result.path = <<>>
        /\ s_result.frontier_left = 0
        /\ DOMAIN s_result.stats = {"expanded_nodes", "search_time", "memory_usage"}
        /\ s_result.stats.expanded_nodes >= 0

\* a search for a walled-off goal that expanded more than the start cell
C3_Witness ==
    /\ Called
    /\ ShortestDistance(s_start, s_goal) < 0
    /\ s_result.stats.expanded_nodes > 1

\* the state a search call on a fresh instance starts its loop in
first_state(alg, start, goal) ==
    CASE alg = "bfs" -> bfs_init(start, 0)
      [] alg = "dfs" -> dfs_init(start, 0)
      [] alg = "ucs" -> ucs_init(start, 0)
      [] alg = "astar" -> astar_init(start, goal, 0)

\* one iteration of the loop of strategy alg
loop_step(alg, st, goal) ==
    CASE alg = "bfs" -> bfs_step(st, goal)
      [] alg = "dfs" -> dfs_step(st, goal)
      [] alg = "ucs" -> ucs_step(st, goal)
      [] alg = "astar" -> astar_step(st, goal)

loop_over(alg, st) ==
    st.broke \/ (IF alg \in {"bfs", "dfs"} THEN st.frontier = <<>> ELSE st.frontier = {})

\* the cell the next iteration pops
next_pop(alg, st) ==
    CASE alg = "bfs" -> Head(st.frontier)
      [] alg = "dfs" -> st.frontier[Len(st.frontier)]
      [] OTHER -> heappop(st.frontier)[3]

\* a heap entry of a cell that was expanded before is dropped, not processed
stale_pop(alg, st) == alg \in {"ucs", "astar"} /\ next_pop(alg, st) \in st.visited

\* the number of cells popped and processed from st on, the goal's pop included
RECURSIVE pops_processed(_, _, _)
pops_processed(alg, st, goal) ==
    IF loop_over(alg, st) THEN 0
    ELSE (IF stale_pop(alg, st) THEN 0 ELSE 1)
            + pops_processed(alg, loop_step(alg, st, goal), goal)

\* C13: the expanded_nodes of a search call is the number of cells it popped from
\* the frontier and processed, the goal's pop counted alike in all four strategies.
C13_ExpandedCountsPops ==
    Called =>
        s_result.stats.expanded_nodes =
            pops_processed(s_result.alg, first_state(s_result.alg, s_start, s_goal), s_goal)

\* C14: on the same maze, start and goal, a fresh A* instance reports no more
\* expanded_nodes than a fresh UCS instance.
C14_AStarNoMoreThanUCS ==
    (Called /\ s_result.alg = "astar") =>
        s_result.stats.expanded_nodes <= search("ucs", 0, s_start, s_goal).expanded_nodes

\* the heuristic saved A* at least two expansions on the way to a goal two or more
\* steps away
C14_Witness ==
    /\ Called
    /\ s_result.alg = "astar"
    /\ heuristic(s_start, s_goal) >= 2
    /\ s_result.stats.expanded_nodes + 1 < search("ucs", 0, s_start, s_goal).expanded_nodes

AllCells == (0..(Len(MAZE_LAYOUT[1]) - 1)) \X (0..(Len(MAZE_LAYOUT) - 1))

\* the cells above, right of, below and left of c that are in the grid and no wall
UpRightDownLeft(c) ==
    SelectSeq(<< <<c[1], c[2] - 1>>, <<c[1] + 1, c[2]>>,
                 <<c[1], c[2] + 1>>, <<c[1] - 1, c[2]>> >>,
              LAMBDA n : InBounds(n) /\ ~IsWall(n))

\* C16: get_neighbors(x, y) is the in-bounds non-wall cells among Up, Right, Down,
\* Left of (x, y), in that order, for every cell of the grid.
C16_NeighborsInOrder ==
    \A c \in AllCells : get_neighbors(c[1], c[2]) = UpRightDownLeft(c)

\* a search went through a cell that has a wall and the grid's edge next to it and
\* two cells to go to
C16_Witness ==
    /\ Called
    /\ \E i \in 1..Len(s_result.path) :
          /\ \E c \in AllCells : IsWall(c) /\ Adjacent4(c, s_result.path[i])
          /\ Len(get_neighbors(s_result.path[i][1], s_result.path[i][2])) = 2

\* C17: a search call of any strategy leaves every cell of the maze as it was,
\* whether or not it finds a path.
C17_MazeUntouched == [][s_result' # s_result => MAZE_LAYOUT' = MAZE_LAYOUT]_vars

\* a search that found a path around a wall has returned
C17_Witness ==
    /\ Called
    /\ Len(s_result.path) >= 3
    /\ \E c \in AllCells : IsWall(c)

\* the number of iterations the loop of strategy alg makes from st on
RECURSIVE loop_iterations(_, _, _)
loop_iterations(alg, st, goal) ==
    IF loop_over(alg, st) THEN 0
    ELSE 1 + loop_iterations(alg, loop_step(alg, st, goal), goal)

\* C20: a search call ends after no more loop iterations than the maze has
\* traversable cells and has expanded no more cells than that; the walk back over
\* the parent map ends at the start without coming to a cell twice.
C20_SearchIsBounded ==
    Called =>
        /\ loop_iterations(s_result.alg, first_state(s_result.alg, s_start, s_goal), s_goal)
              <= Cardinality(OpenCells)
        /\ s_result.stats.expanded_nodes <= Cardinality(OpenCells)
        /\ Len(s_result.path) <= Cardinality(OpenCells)
        /\ s_result.path # <<>> => s_result.path[1] = s_start
        /\ \A i, j \in 1..Len(s_result.path) :
              s_result.path[i] = s_result.path[j] => i = j

\* the worst case: a search that expanded every traversable cell of a maze with
\* walls and found a path
C20_Witness ==
    /\ Called
    /\ s_result.stats.expanded_nodes = Cardinality(OpenCells)
    /\ Len(s_result.path) >= 3
    /\ \E c \in AllCells : IsWall(c)

\* the states the loop of strategy alg goes through from st on, st first
RECURSIVE loop_states(_, _, _)
loop_states(alg, st, goal) ==
    IF loop_over(alg, st) THEN <<st>>
    ELSE <<st>> \o loop_states(alg, loop_step(alg, st, goal), goal)

\* the cells an iteration pushed an entry for
pushed_cells(before, after) == {e[3] : e \in after.frontier \ before.frontier}

\* a visited cell carries its true distance from the start
settled_exact(st, start) ==
    \A c \in st.visited : st.cost_so_far[c] = ShortestDistance(start, c)

\* an iteration leaves the cost and the parent of every visited cell alone, and
\* touches a cell it knew already only to make it strictly cheaper
relaxes_strictly(before, after) ==
    /\ \A c \in before.visited :
          /\ after.cost_so_far[c] = before.cost_so_far[c]
          /\ after.parent[c] = before.parent[c]
    /\ \A c \in DOMAIN before.cost_so_far :
          (\/ after.cost_so_far[c] # before.cost_so_far[c]
           \/ after.parent[c] # before.parent[c]
           \/ c \in pushed_cells(before, after))
              => after.cost_so_far[c] < before.cost_so_far[c]

settled_along(states, start) ==
    \A i \in 1..Len(states) :
        /\ settled_exact(states[i], start)
        /\ i < Len(states) => relaxes_strictly(states[i], states[i + 1])

\* C21: in UCS and A*, a cell that was popped and marked visited carries its true
\* shortest distance from the start, no later iteration changes its cost or its
\* parent, and a known cell is pushed again only for a strictly cheaper cost.
C21_VisitedIsSettled ==
    (Called /\ s_result.alg \in {"ucs", "astar"}) =>
        settled_along(loop_states(s_result.alg,
                                  first_state(s_result.alg, s_start, s_goal), s_goal),
                      s_start)

\* a UCS or A* search expanded a cell whose neighbours were all known already, at
\* costs the expansion could not improve, on its way around a wall
C21_Witness ==
    /\ Called
    /\ s_result.alg \in {"ucs", "astar"}
    /\ Len(s_result.path) >= 4
    /\ \E c \in AllCells : IsWall(c)
    /\ LET states == loop_states(s_result.alg,
                                 first_state(s_result.alg, s_start, s_goal), s_goal)
       IN  \E i \in 1..(Len(states) - 1) :
              /\ states[i + 1].expanded = states[i].expanded + 1
              /\ pushed_cells(states[i], states[i + 1]) = {}
              /\ \E c \in states[i].visited :
                    Adjacent4(c, next_pop(s_result.alg, states[i]))

\* an iteration that pops an entry of a visited cell only takes the entry off the heap
discards_stale(alg, before, after) ==
    stale_pop(alg, before) =>
        /\ after.expanded = before.expanded
        /\ after.cost_so_far = before.cost_so_far
        /\ after.parent = before.parent
        /\ after.visited = before.visited
        /\ after.frontier = before.frontier \ {heappop(before.frontier)}

discards_along(alg, states) ==
    \A i \in 1..(Len(states) - 1) : discards_stale(alg, states[i], states[i + 1])

\* C22: in UCS and A*, popping a heap entry whose cell is visited already changes
\* neither expanded_nodes nor the cost map nor the parent map, and examines no
\* neighbour.
C22_StaleEntryDiscarded ==
    (Called /\ s_result.alg \in {"ucs", "astar"}) =>
        discards_along(s_result.alg,
                       loop_states(s_result.alg,
                                   first_state(s_result.alg, s_start, s_goal), s_goal))

\* some iteration of the search popped an entry of a visited cell
C22_StalePopHappens ==
    /\ Called
    /\ s_result.alg \in {"ucs", "astar"}
    /\ LET states == loop_states(s_result.alg,
                                 first_state(s_result.alg, s_start, s_goal), s_goal)
       IN  \E i \in 1..(Len(states) - 1) :
              next_pop(s_result.alg, states[i]) # s_goal /\ stale_pop(s_result.alg, states[i])

\* the cells an iteration of BFS or DFS appended to the queue or stack, in order
appended(before, after) ==
    SubSeq(after.frontier, Len(before.frontier), Len(after.frontier))

\* the cells popped over states[i..], in order
RECURSIVE pops_from(_, _, _)
pops_from(alg, states, i) ==
    IF i >= Len(states) THEN <<>>
    ELSE <<next_pop(alg, states[i])>> \o pops_from(alg, states, i + 1)

\* the cells added to the frontier over states[i..], in order
RECURSIVE adds_from(_, _)
adds_from(states, i) ==
    IF i >= Len(states) THEN <<>>
    ELSE appended(states[i], states[i + 1]) \o adds_from(states, i + 1)

NoRepeat(seq) == \A i, j \in 1..Len(seq) : seq[i] = seq[j] => i = j

once_each(alg, states) ==
    /\ \A i \in 1..(Len(states) - 1) :
          states[i + 1].visited =
              states[i].visited \cup SeqToSet(appended(states[i], states[i + 1]))
    /\ NoRepeat(states[1].frontier \o adds_from(states, 1))
    /\ NoRepeat(pops_from(alg, states, 1))

\* C23: in BFS and DFS a neighbour is marked visited in the iteration that adds it
\* to the frontier, no cell is added to the queue or stack more than once, and no
\* cell is popped more than once.
C23_EnqueuedOnce ==
    (Called /\ s_result.alg \in {"bfs", "dfs"}) =>
        once_each(s_result.alg,
                  loop_states(s_result.alg,
                              first_state(s_result.alg, s_start, s_goal), s_goal))

\* a BFS or DFS search expanded a cell next to a cell that was waiting in the
\* frontier, and did not add that cell again
C23_Witness ==
    /\ Called
    /\ s_result.alg \in {"bfs", "dfs"}
    /\ LET states == loop_states(s_result.alg,
                                 first_state(s_result.alg, s_start, s_goal), s_goal)
       IN  \E i \in 1..(Len(states) - 1) :
              /\ next_pop(s_result.alg, states[i]) # s_goal
              /\ \E k \in 1..Len(states[i + 1].frontier) :
                    /\ Adjacent4(states[i + 1].frontier[k], next_pop(s_result.alg, states[i]))
                    /\ states[i + 1].frontier[k]
                          \notin SeqToSet(appended(states[i], states[i + 1]))

\* the cells left of, below, right of and above c that are in the grid, no wall and
\* not in seen
LeftDownRightUp(c, seen) ==
    SelectSeq(<< <<c[1] - 1, c[2]>>, <<c[1], c[2] + 1>>,
                 <<c[1] + 1, c[2]>>, <<c[1], c[2] - 1>> >>,
              LAMBDA n : InBounds(n) /\ ~IsWall(n) /\ n \notin seen)

\* one DFS iteration: the loop ends exactly when the popped cell is the goal;
\* otherwise the popped cell's unvisited neighbours lie on top of the rest of the
\* stack with Left topmost, then Down, Right, Up, and the next pop takes the topmost
dfs_order_step(before, after, goal) ==
    LET n == Len(before.frontier)
        current == before.frontier[n]
        todo == LeftDownRightUp(current, before.visited)
    IN  /\ after.broke <=> current = goal
        /\ current # goal =>
              /\ after.frontier = SubSeq(before.frontier, 1, n - 1) \o Reverse(todo)
              /\ todo # <<>> => next_pop("dfs", after) = todo[1]

dfs_order_along(states, goal) ==
    \A i \in 1..(Len(states) - 1) : dfs_order_step(states[i], states[i + 1], goal)

\* C24: in DFS, after a cell that is not the goal is expanded, the next cell popped
\* is the last one pushed: of the cell's unvisited traversable neighbours Left is
\* explored first, then Down, then Right, then Up; the goal ends the search when it
\* is popped, not when it is pushed.
C24_DfsLeftDownRightUp ==
    (Called /\ s_result.alg = "dfs") =>
        dfs_order_along(loop_states("dfs", first_state("dfs", s_start, s_goal), s_goal),
                        s_goal)

\* a DFS search pushed the goal under another neighbour, and went on with that
\* neighbour
C24_Witness ==
    /\ Called
    /\ s_result.alg = "dfs"
    /\ LET states == loop_states("dfs", first_state("dfs", s_start, s_goal), s_goal)
       IN  \E i \in 1..(Len(states) - 2) :
              /\ s_goal \in SeqToSet(appended(states[i], states[i + 1]))
              /\ Len(appended(states[i], states[i + 1])) >= 2
              /\ next_pop("dfs", states[i + 1]) # s_goal
              /\ ~states[i + 1].broke

(***************************************************************************)
(* Properties of the scheduler (checked under Spec).                       *)
(***************************************************************************)
\* update_ghosts has just returned from an eligible tick
AfterTick == pc = "collisions" /\ tick_log.eligible

Rank(g) == CHOOSE i \in 1..4 : GhostOrder[i] = g

\* the ghost whose search the stats display shows
ShownGhost(level) == IF level \in 1..4 THEN ACTIVE_GHOSTS[level][1] ELSE "blue"

\* C4: the expanded_nodes a search call reports is the count of a first call with
\* the same maze, start and goal, also on the instances levels 5 and 6 reuse.
C4_ExpandedPerCall ==
    (AfterTick /\ tick_log.captured = {}
               /\ ShownGhost(tick_log.level) \in tick_log.replanned) =>
        stats.expanded_nodes =
            search(alg_of[ShownGhost(tick_log.level)], 0,
                   tick_log.before[ShownGhost(tick_log.level)],
                   tick_log.pacman).expanded_nodes

\* C5: after a tick of level 5 or 6 no two ghosts are on the same cell.
C5_GhostsApart ==
    (AfterTick /\ tick_log.level \in {5, 6}) =>
        \A g, h \in GhostColors : g # h => ghost_positions[g] # ghost_positions[h]

\* what precedence decides for the cells more than one ghost proposed
ContentionOutcome ==
    /\ \A g \in GhostColors :
          (/\ tick_log.proposed[g] # None
           /\ \E h \in GhostColors \ {g} : tick_log.proposed[h] = tick_log.proposed[g]) =>
              IF \A h \in GhostColors :
                    tick_log.proposed[h] = tick_log.proposed[g] => Rank(g) <= Rank(h)
              THEN ghost_positions[g] = tick_log.proposed[g]
              ELSE ghost_positions[g] = tick_log.before[g]
    /\ \A g \in tick_log.held :
          \E h \in GhostColors :
              Rank(h) < Rank(g) /\ tick_log.proposed[h] = tick_log.proposed[g]

C7_HeldPathCleared ==
    AfterTick => \A g \in tick_log.held : ghost_paths[g] = <<>>

\* some ghost's accepted next cell is Pac-Man's cell in the call that ends in the
\* primed state
CaptureNext ==
    \E g \in GhostColors :
        /\ tick_log'.proposed[g] = tick_log'.pacman
        /\ g \in tick_log'.moved \/ g \in tick_log'.captured

C9_BelowDelayOnlyTimer ==
    [][(pc = "ghosts" /\ ghost_move_timer + frame_dt < ghost_move_delay) =>
          /\ ghost_move_timer' = ghost_move_timer + frame_dt
          /\ tick_log'.replanned = {}
          /\ UNCHANGED <<ghost_positions, current_path, ghost_paths, stats,
                         ghost_algorithms, pacman_pos, game_maze, level_complete,
                         game_state, current_level, MAZE_LAYOUT>>]_vars

\* such a call made while a ghost had a step of its cached path left to take
C9_Witness ==
    /\ pc = "collisions"
    /\ ~tick_log.eligible
    /\ ghost_move_timer > 0
    /\ current_level = 5
    /\ \E g \in GhostColors : Len(ghost_paths[g]) > 1

\* C10: while a level runs, a cached path is empty or starts at its ghost's cell.
C10_PathStartsAtGhost ==
    game_state = "GAME" =>
        /\ current_level \in 1..4 =>
              \/ current_path = <<>>
              \/ current_path[1] = ghost_positions[ACTIVE_GHOSTS[current_level][1]]
        /\ current_level \in {5, 6} =>
              \A g \in GhostColors :
                  ghost_paths[g] = <<>> \/ ghost_paths[g][1] = ghost_positions[g]

\* after a level 5 tick in which one ghost advanced and another was held with its
\* path kept
C10_Witness ==
    /\ AfterTick
    /\ tick_log.level = 5
    /\ \E g \in tick_log.moved : Len(ghost_paths[g]) > 1
    /\ \E g \in tick_log.held : Len(ghost_paths[g]) > 1

\* the ghosts of the level the tick ran in
ActiveGhosts == SeqToSet(ACTIVE_GHOSTS[tick_log.level])

\* the cached path of ghost g as the tick left it
PathNow(g) == IF tick_log.level \in 1..4 THEN current_path ELSE ghost_paths[g]

\* the loop of the tick came to ghost g (a level 6 capture returns from inside it)
Reached(g) == \A c \in tick_log.captured : Rank(g) <= Rank(c)

\* a path is popped only with two elements or more, and otherwise left or cleared
PopsOnlyLongPaths ==
    /\ \A g \in tick_log.moved :
          Len(tick_log.planned[g]) >= 2 /\ PathNow(g) = Tail(tick_log.planned[g])
    /\ tick_log.captured = {} =>
          \A g \in ActiveGhosts \ tick_log.moved :
              PathNow(g) = tick_log.planned[g] \/ PathNow(g) = <<>>

Proposers == {g \in ActiveGhosts : tick_log.proposed[g] # None}

DistinctProposals ==
    \A g, h \in Proposers : g # h => tick_log.proposed[g] # tick_log.proposed[h]

AllProposalsCommitted ==
    \A g \in Proposers :
        /\ ghost_positions[g] = tick_log.proposed[g]
        /\ PathNow(g) = Tail(tick_log.planned[g])

C15_SamePathOnReuse ==
    AfterTick =>
        \A g \in tick_log.replanned :
            tick_log.planned[g] =
                search(alg_of[g], 0, tick_log.before[g], tick_log.pacman).path

\* a reused instance, its counter beyond what this search added, found a path
C15_Witness ==
    /\ AfterTick
    /\ tick_log.level \in {5, 6}
    /\ \E g \in tick_log.replanned :
          /\ Len(tick_log.planned[g]) >= 2
          /\ ghost_algorithms[g] >
                search(alg_of[g], 0, tick_log.before[g], tick_log.pacman).expanded_nodes

\* C18: a replanned path, when not empty, leads from the cell the ghost is on to the
\* cell Pac-Man is on at that tick; a cached path of more than one element is kept
\* as it is, wherever Pac-Man has gone since.
C18_ReplanFromCurrentPositions ==
    AfterTick =>
        /\ \A g \in tick_log.replanned :
              tick_log.planned[g] # <<>> =>
                  /\ tick_log.planned[g][1] = tick_log.before[g]
                  /\ tick_log.planned[g][Len(tick_log.planned[g])] = tick_log.pacman
        /\ \A g \in ActiveGhosts :
              Len(tick_log.cached[g]) > 1 =>
                  g \notin tick_log.replanned /\ tick_log.planned[g] = tick_log.cached[g]

\* a ghost went on along a path to a cell Pac-Man had left, in a tick that
\* replanned other ghosts
C18_Witness ==
    /\ AfterTick
    /\ tick_log.pacman # initial_pacman
    /\ \E g \in ActiveGhosts \ tick_log.replanned :
          /\ Len(tick_log.cached[g]) > 1
          /\ tick_log.cached[g][Len(tick_log.cached[g])] # tick_log.pacman
    /\ tick_log.replanned # {}

\* one step of ghost g: to a cell next to its own, in the grid and no wall
OneStep(g) ==
    /\ Adjacent4(ghost_positions[g], ghost_positions'[g])
    /\ InBounds(ghost_positions'[g])
    /\ ~IsWall(ghost_positions'[g])

\* C19: one call of update_ghosts leaves each ghost where it is or one step further,
\* or puts all ghosts back on their spawn cells, whatever dt is; an eligible tick
\* sets the timer to zero.
C19_OneStepPerCall ==
    [][pc = "ghosts" =>
          /\ \/ \A g \in GhostColors :
                   ghost_positions'[g] = ghost_positions[g] \/ OneStep(g)
             \/ tick_log'.captured # {} /\ ghost_positions' = initial_ghosts
          /\ tick_log'.eligible => ghost_move_timer' = 0]_vars

\* a frame longer than the ghosts' delay moved a ghost
C19_Witness ==
    /\ AfterTick
    /\ frame_dt > ghost_move_delay
    /\ ghost_move_timer = 0
    /\ \E g \in tick_log.moved : ghost_positions[g] # tick_log.before[g]

\* Pac-Man stood on the cell of an active ghost when the level-6 tick began: he
\* stepped onto it in update_pacman of this frame
SteppedOntoGhost ==
    /\ AfterTick
    /\ tick_log.level = 6
    /\ \E g \in ActiveGhosts : tick_log.before[g] = tick_log.pacman

\* C26: in level 6 Pac-Man cannot pass through a ghost: a frame in which he steps
\* onto the cell of an active ghost, or changes cells with one, ends with the game
\* reset, by update_ghosts itself or by check_collisions.
C26_NoPassThrough ==
    SteppedOntoGhost => (tick_log.captured # {} \/ ghost_on_pacman)

\* a step in which reset_game() is called: K_RETURN, check_collisions finding a ghost
\* on Pac-Man, or a level-6 tick in which a ghost's next cell is Pac-Man's
ResetTaken ==
    \/ KeyReturn
    \/ CheckCollisions /\ ghost_on_pacman
    \/ UpdateGhosts /\ tick_log'.captured # {}

\* C28: after any game reset, the one update_ghosts makes in the middle of a level-6
\* tick included, every ghost and Pac-Man are on their spawn cells and every cached
\* path is empty: no move proposed earlier in that tick is committed and no path
\* computed earlier in that tick is kept.
C28_ResetIsClean ==
    [][ResetTaken =>
          /\ ghost_positions' = initial_ghosts
          /\ pacman_pos' = initial_pacman
          /\ ghost_paths' = no_paths
          /\ current_path' = <<>>]_vars

\* a level-6 tick was cut short by a capture while Pac-Man was away from his spawn
\* cell, after an earlier ghost had searched a path and proposed a move
C28_Witness ==
    /\ AfterTick
    /\ tick_log.level = 6
    /\ tick_log.captured # {}
    /\ tick_log.pacman # initial_pacman
    /\ \E h \in GhostColors \ tick_log.captured :
          /\ tick_log.proposed[h] # None
          /\ tick_log.planned[h] # <<>>
          /\ h \in tick_log.replanned

(***************************************************************************)
(* Properties of the frame loop running for ever (checked under LoopSpec). *)
(***************************************************************************)
\* update_ghosts runs an eligible tick
EligibleTick == LoopGhosts /\ tick_log'.eligible

\* in the tick just run g proposed a cell and was held on its spawn cell, a ghost
\* earlier in the order having claimed that cell
HeldBehind(g) ==
    /\ tick_log.proposed[g] # None
    /\ g \in tick_log.held
    /\ ghost_positions[g] = initial_ghosts[g]
    /\ \E h \in GhostColors :
          Rank(h) < Rank(g) /\ tick_log.proposed[h] = tick_log.proposed[g]

\* a multi-ghost level is being played on LayoutB, where blue and pink both start
\* next to the only cell that leads to Pac-Man
OnLayoutB == MAZE_LAYOUT = LayoutB /\ game_state = "GAME" /\ current_level \in {5, 6}

\* C25: a lower-precedence ghost can be blocked for ever: in every execution that
\* stays in a multi-ghost level on LayoutB eligible ticks never stop occurring, and
\* on each of them pink proposes a move and is held because blue, earlier in the
\* order, claims the proposed cell; so not every ghost eventually advances.
C25_PerpetualHold ==
    /\ [](AfterTick /\ OnLayoutB => HeldBehind("pink"))
    /\ <>[](OnLayoutB /\ ~level_complete) => []<><<EligibleTick>>_vars

\* pink is held in a tick of level 5 after so many rounds that the counters of the
\* three instances that search have all passed MaxExpanded
C25_Witness ==
    /\ AfterTick
    /\ OnLayoutB
    /\ current_level = 5
    /\ HeldBehind("pink")
    /\ \A g \in {"blue", "pink", "orange"} : ghost_algorithms[g] = MaxExpanded

\* the ghost of a single-ghost level, and the path a fresh instance of its strategy
\* finds from its spawn cell to Pac-Man's
LoneGhost == ACTIVE_GHOSTS[current_level][1]

FirstPlan == search(alg_of[LoneGhost], 0, initial_ghosts[LoneGhost], initial_pacman).path

\* a single-ghost level is played and Pac-Man's cell can be reached from the spawn cell
ChaseOn ==
    /\ game_state = "GAME"
    /\ current_level \in 1..4
    /\ ShortestDistance(initial_ghosts[LoneGhost], initial_pacman) > 0

\* the k-th eligible tick since the reset took the ghost from cell k to cell k + 1 of
\* FirstPlan, searching on the first tick only, and the ghost stands on Pac-Man's
\* cell exactly after tick Len(FirstPlan) - 1
OnFirstPlan ==
    \E k \in 1..(Len(FirstPlan) - 1) :
        /\ tick_log.before[LoneGhost] = FirstPlan[k]
        /\ ghost_positions[LoneGhost] = FirstPlan[k + 1]
        /\ current_path = SubSeq(FirstPlan, k + 1, Len(FirstPlan))
        /\ tick_log.moved = {LoneGhost}
        /\ (LoneGhost \in tick_log.replanned) <=> (k = 1)
        /\ ghost_on_pacman <=> (k = Len(FirstPlan) - 1)

\* check_collisions finds the ghost on Pac-Man's cell and resets the game
Caught == CheckCollisions /\ ghost_on_pacman

\* C27: in levels 1 to 4, when Pac-Man's cell can be reached from the ghost's spawn
\* cell, the ghost walks the path of one search, one cell per eligible tick, is on
\* Pac-Man's cell after exactly Len(path) - 1 eligible ticks, and the game is reset
\* then; while the level is played this happens again and again.
C27_GhostArrives ==
    /\ [](AfterTick /\ ChaseOn => OnFirstPlan)
    /\ <>[]ChaseOn => []<><<Caught>>_vars

\* the ghost has come to Pac-Man's cell on the last cell of a path of four or more
\* cells, without a second search
C27_Witness ==
    /\ AfterTick
    /\ ChaseOn
    /\ Len(FirstPlan) >= 4
    /\ ghost_on_pacman
    /\ tick_log.replanned = {}
    /\ current_path = <<pacman_pos>>

====
